---- MODULE Spec2Model ----
(***************************************************************************)
(* One call session of the voice server: the bridge between the Twilio     *)
(* media-stream socket (twilioWs) and the ElevenLabs conversation socket   *)
(* (elevenWs), as set up by wss.on("connection").                          *)
(*                                                                         *)
(* The repository holds four successive revisions of the same server:      *)
(*   "v1"  src/unnamed/part_000:141-314  connectElevenLabs, called from    *)
(*         the start handler; only the API key is required                 *)
(*   "v2"  src/server.js:100-266         connectElevenLabs, called from    *)
(*         the start handler; API key and agent id required                *)
(*   "v4"  src/server.js:757-922         setupElevenLabs, called when the  *)
(*         Twilio socket is accepted; signed URL fetched first             *)
(* (src/server.js:391-556 is line for line the same as 757-922.)           *)
(* The revision is chosen in Init and never changes.                       *)
(***************************************************************************)
EXTENDS Integers, Sequences, FiniteSets, TLC

VARIABLES
    rev,                 \* which revision of wss.on("connection") runs
    ELEVENLABS_API_KEY,  \* TRUE when the environment variable is set
    ELEVENLABS_AGENT_ID, \* TRUE when the environment variable is set
    streamSid,           \* let streamSid = null
    callSid,             \* let callSid = null
    elevenWs,            \* let elevenWs = null; else the index of a socket in ws
    twilioWs,            \* twilioWs.readyState
    ws,                  \* readyState of every ElevenLabs WebSocket created, in creation order
    setup,               \* position of the async setupElevenLabs / connectElevenLabs
    aiOut,               \* frames sent on ElevenLabs sockets, in order: [sock, cmd, data]
    twOut,               \* frames sent on the Twilio socket, in order: [event, streamSid, payload]
    closeCalls,          \* per ElevenLabs socket: number of close() calls made on it
    twCloseCalls,        \* number of twilioWs.close() calls
    nStart,              \* number of start frames handled so far
    nFrames,             \* number of inbound frames handled so far (bounded by MaxFrames)
    crashed,             \* an exception escaped an event handler (uncaught: the process dies)
    last,                \* the event handled by the last step: [src, sock, frame]
    other,               \* another session of the same process, seen from outside
    http                 \* the HTTP side of the process: its key and the last request

vars == <<rev, ELEVENLABS_API_KEY, ELEVENLABS_AGENT_ID, streamSid, callSid, elevenWs,
          twilioWs, ws, setup, aiOut, twOut, closeCalls, twCloseCalls, nStart, nFrames,
          crashed, last, other, http>>

config == <<rev, ELEVENLABS_API_KEY, ELEVENLABS_AGENT_ID>>

\* what no handler of the session can name: the variables of the other
\* connection's closure, and the HTTP routes
outside == <<other, http>>

---------------------------------------------------------------------------
(* Bounds *)

MaxFrames == 3
MaxSockets == 2
MaxOtherFrames == 1

---------------------------------------------------------------------------
(* Values *)

Null == "null"
NoSock == 0

\* what reading a key that is not there yields
Undefined == "undefined"

\* no event_id: the key is absent
NoId == -1

Revisions == {"v1", "v2", "v4"}
Lazy == {"v1", "v2"}

\* A base64 text is a sequence of characters: 0..63 are the digits of the
\* alphabet (A=0, B=1, ...), Pad is '=', Junk any character outside it.
Pad == 64
Junk == 65
IsDigit(c) == c >= 0 /\ c < 64

\* "AAA=" (canonical), "BBBB" (canonical), "AAB=" (trailing bits set),
\* "B\nBB" (a line break inside, padding missing)
MediaPayloads == { <<0, 0, 0, Pad>>, <<1, 1, 1, 1>>, <<0, 0, 1, Pad>>, <<1, Junk, 1, 1>> }

\* "BBB=", "CCCC"
AudioChunks == { <<1, 1, 1, Pad>>, <<2, 2, 2, 2>> }

StreamSids == {"MZ1", "MZ2"}

\* the streamSid of the other session's stream
OtherSid == "MZ9"

NoData == << >>

---------------------------------------------------------------------------
(* Buffer.from(s, "base64").toString("base64") *)

RECURSIVE DigitsBeforePad(_)
DigitsBeforePad(s) ==
    IF s = << >> \/ Head(s) = Pad THEN << >>
    ELSE IF IsDigit(Head(s)) THEN <<Head(s)>> \o DigitsBeforePad(Tail(s))
    ELSE DigitsBeforePad(Tail(s))

RECURSIVE BytesOfDigits(_)
BytesOfDigits(d) ==
    IF Len(d) >= 4 THEN
        << d[1] * 4 + d[2] \div 16,
           (d[2] % 16) * 16 + d[3] \div 4,
           (d[3] % 4) * 64 + d[4] >> \o BytesOfDigits(SubSeq(d, 5, Len(d)))
    ELSE IF Len(d) = 3 THEN
        << d[1] * 4 + d[2] \div 16, (d[2] % 16) * 16 + d[3] \div 4 >>
    ELSE IF Len(d) = 2 THEN
        << d[1] * 4 + d[2] \div 16 >>
    ELSE << >>

Base64Decode(s) == BytesOfDigits(DigitsBeforePad(s))

RECURSIVE Base64Encode(_)
Base64Encode(b) ==
    IF Len(b) >= 3 THEN
        << b[1] \div 4,
           (b[1] % 4) * 16 + b[2] \div 16,
           (b[2] % 16) * 4 + b[3] \div 64,
           b[3] % 64 >> \o Base64Encode(SubSeq(b, 4, Len(b)))
    ELSE IF Len(b) = 2 THEN
        << b[1] \div 4, (b[1] % 4) * 16 + b[2] \div 16, (b[2] % 16) * 4, Pad >>
    ELSE IF Len(b) = 1 THEN
        << b[1] \div 4, (b[1] % 4) * 16, Pad, Pad >>
    ELSE << >>

Base64RoundTrip(s) == Base64Encode(Base64Decode(s))

---------------------------------------------------------------------------
(* Events and frames *)

\* One inbound frame, decoded by JSON.parse. tag is msg.event (Twilio) or
\* msg.type (ElevenLabs); sid is msg.start.streamSid; payload is
\* msg.media.payload or msg.audio.chunk (NoData when absent); alt is
\* msg.audio_event.audio_base_64; id is msg.ping_event.event_id (NoId when
\* absent; frames without a ping_event carry 0); text is msg.audio when that
\* is a string and not an object.
Frame(tag, sid, payload, alt, id) ==
    [tag |-> tag, sid |-> sid, payload |-> payload, alt |-> alt, id |-> id,
     text |-> NoData]

Plain(tag) == Frame(tag, Null, NoData, NoData, 0)

\* a text JSON.parse rejects: it has no tag, the name stands for the text
Garbage == Plain("<not json>")

\* {"event":"start","start":{}}, {"event":"media","media":{}}: the frame has
\* its tag and its object, the fields the handler reads are missing
StartWithoutSid == Frame("start", Undefined, NoData, NoData, 0)
MediaWithoutPayload == Frame("media", Null, NoData, NoData, 0)

\* {"type":"audio"}, {"type":"ping"}
AudioWithoutChunk == Frame("audio", Null, NoData, NoData, 0)
PingWithoutId == Frame("ping", Null, NoData, NoData, NoId)

\* "mark" is a frame Twilio sends and the switch has no case for
TwilioFrames ==
    {Plain("connected"), Plain("stop")}
    \cup {Frame("start", sid, NoData, NoData, 0) : sid \in StreamSids}
    \cup {Frame("media", Null, p, NoData, 0) : p \in MediaPayloads}
    \cup {Garbage, Plain("mark"), StartWithoutSid, MediaWithoutPayload}

\* values of event_id: 0 is a number like any other, and falsy
PingIds == {0, 7}

\* {"type":"audio","audio_event":{"audio_base_64":"CCCC"}}
AudioInEvent == Frame("audio", Null, NoData, <<2, 2, 2, 2>>, 0)

\* {"type":"audio","audio":{"chunk":"BBB="},"audio_event":{"audio_base_64":"CCCC"}}
AudioInBoth == Frame("audio", Null, <<1, 1, 1, Pad>>, <<2, 2, 2, 2>>, 0)

\* {"type":"audio","audio":"BBB="}
AudioAsText == [Frame("audio", Null, NoData, NoData, 0) EXCEPT !.text = <<1, 1, 1, Pad>>]

\* "vad_score" is a frame ElevenLabs sends and the switch has no case for
ElevenFrames ==
    {Plain("conversation_initiation_metadata"), Plain("interruption")}
    \cup {Frame("audio", Null, c, NoData, 0) : c \in AudioChunks}
    \cup {Frame("ping", Null, NoData, NoData, i) : i \in PingIds}
    \cup {Garbage, Plain("error"), Plain("vad_score"), AudioWithoutChunk, PingWithoutId}
    \cup {AudioInEvent, AudioInBoth, AudioAsText}

Event(src, sock, frame) == [src |-> src, sock |-> sock, frame |-> frame]

\* JavaScript truthiness of the values the handlers test: a string id (null,
\* undefined and "" are falsy), a payload text (absent and "" are falsy), a
\* number (0 and undefined are falsy)
TruthySid(v) == v # Null /\ v # Undefined /\ v # ""
TruthyText(v) == v # NoData
TruthyId(v) == v # 0 /\ v # NoId

---------------------------------------------------------------------------
(* Frames written *)

UserAudio(sock, payload) == [sock |-> sock, cmd |-> "user_audio_chunk", data |-> payload, id |-> 0]
InitConversation(sock) ==
    [sock |-> sock, cmd |-> "conversation_initiation_client_data", data |-> NoData, id |-> 0]
Pong(sock, id) == [sock |-> sock, cmd |-> "pong", data |-> NoData, id |-> id]

\* JSON.stringify({user_audio_chunk: undefined}) is "{}"
EmptyObject(sock) == [sock |-> sock, cmd |-> "{}", data |-> NoData, id |-> 0]

\* the media frame without its streamSid
PlayAudio_NullSid(sid, payload) == [event |-> "media", streamSid |-> Null, payload |-> payload]

PlayAudio(sid, payload) == [event |-> "media", streamSid |-> sid, payload |-> payload]
\* the clear frame without its streamSid
ClearBuffer_NoSid(sid) == [event |-> "clear", streamSid |-> Null, payload |-> NoData]

ClearBuffer(sid) == [event |-> "clear", streamSid |-> sid, payload |-> NoData]

---------------------------------------------------------------------------
(* The rest of the process *)

\* Another connection accepted by wss.on("connection") has its own
\* streamSid, callSid and elevenWs (`let` in the handler's closure). Of that
\* session the model keeps the state of its two sockets, its streamSid and
\* the frames written to its Twilio socket.
OtherSession(tw, el, sid, out) ==
    [twilioWs |-> tw, elevenWs |-> el, streamSid |-> sid, twOut |-> out]

\* no other connection has been accepted
NoSession == OtherSession("none", "none", Null, << >>)

\* the process has exited: the sockets it held are closed
Killed(o) ==
    [o EXCEPT !.twilioWs = IF @ = "none" THEN @ ELSE "CLOSED",
              !.elevenWs = IF @ = "none" THEN @ ELSE "CLOSED"]

\* The HTTP side: the configured VOICE_API_KEY, the last request (its route
\* and its two credential headers, an absent header being the empty text)
\* and the answer to it: the status, the route handler that ran, what the
\* body holds and whether client.calls.create() was called.
\* No HTTP request has been made:
NoRequest == [VOICE_API_KEY |-> << >>, route |-> "none", xApiKey |-> << >>,
              authorization |-> << >>, status |-> 0, handler |-> "none",
              body |-> "none", placed |-> FALSE]

---------------------------------------------------------------------------
(* Initial state: wss.on("connection") has run *)

\* setupElevenLabs() called at accept in every revision
SetupAtAccept_Eager(r, key, agent) == IF key /\ agent THEN "fetching" ELSE "returned"

\* setupElevenLabs() is called while the connection handler runs: with both
\* variables set it is suspended in `await getSignedUrl()`, else it has returned.
\* The first revisions call nothing at accept.
SetupAtAccept(r, key, agent) ==
    IF r \in Lazy THEN "idle"
    ELSE IF key /\ agent THEN "fetching" ELSE "returned"

Init ==
    /\ rev \in Revisions
    /\ ELEVENLABS_API_KEY \in BOOLEAN
    /\ ELEVENLABS_AGENT_ID \in BOOLEAN
    /\ streamSid = Null
    /\ callSid = Null
    /\ elevenWs = NoSock
    /\ twilioWs = "OPEN"
    /\ ws = << >>
    /\ setup = SetupAtAccept(rev, ELEVENLABS_API_KEY, ELEVENLABS_AGENT_ID)
    /\ aiOut = << >>
    /\ twOut = << >>
    /\ closeCalls = << >>
    /\ twCloseCalls = 0
    /\ nStart = 0
    /\ nFrames = 0
    /\ crashed = FALSE
    /\ last = Event("accept", NoSock, Plain("connection"))
    /\ other = NoSession
    /\ http = NoRequest

---------------------------------------------------------------------------
(* ElevenLabs socket operations *)

\* the guard with the readyState test forgotten
ElevenOpen_NoReadyState == elevenWs # NoSock

\* `elevenWs && elevenWs.readyState === WebSocket.OPEN`
ElevenOpen == elevenWs # NoSock /\ ws[elevenWs] = "OPEN"

\* the guard without the readyState test
TwilioWritable_SidOnly == TruthySid(streamSid)

\* the guard without `streamSid &&`
TwilioWritable_NoSid == twilioWs = "OPEN"

\* `streamSid && twilioWs.readyState === WebSocket.OPEN`
TwilioWritable == TruthySid(streamSid) /\ twilioWs = "OPEN"

\* connectElevenLabs returns early when the credentials it needs are missing
CanConnect ==
    IF rev = "v1" THEN ELEVENLABS_API_KEY
    ELSE ELEVENLABS_API_KEY /\ ELEVENLABS_AGENT_ID

\* elevenWs = new WebSocket(...)
NewSocket ==
    /\ ws' = Append(ws, "CONNECTING")
    /\ closeCalls' = Append(closeCalls, 0)
    /\ elevenWs' = Len(ws) + 1

\* elevenWs.close(): the socket starts its closing handshake
CloseEleven ==
    /\ ws' = [ws EXCEPT ![elevenWs] = "CLOSING"]
    /\ closeCalls' = [closeCalls EXCEPT ![elevenWs] = @ + 1]
    /\ UNCHANGED elevenWs

\* the close() call left out
CloseIfOpen_Skip == UNCHANGED <<ws, closeCalls, elevenWs>>

\* `if (elevenWs && elevenWs.readyState === WebSocket.OPEN) elevenWs.close()`
CloseIfOpen ==
    IF ElevenOpen THEN CloseEleven ELSE UNCHANGED <<ws, closeCalls, elevenWs>>

---------------------------------------------------------------------------
(* twilioWs.on("message") *)

\* case "start": streamSid and callSid are recorded; the lazy revisions then
\* call connectElevenLabs(), which creates a socket when CanConnect
OnStart(msg) ==
    /\ streamSid' = msg.sid
    /\ callSid' = IF msg.sid = Undefined THEN Undefined ELSE "CA1"
    /\ nStart' = nStart + 1
    /\ IF rev \in Lazy
       THEN IF CanConnect
            THEN NewSocket /\ setup' = "connected"
            ELSE setup' = "returned" /\ UNCHANGED <<ws, closeCalls, elevenWs>>
       ELSE UNCHANGED <<ws, closeCalls, elevenWs, setup>>
    /\ UNCHANGED aiOut

\* `.toString()` without "base64": the decoded bytes are sent as text
MediaPayloadOut_Decoded(p) == IF rev \in Lazy THEN p ELSE Base64Decode(p)

\* the value written as user_audio_chunk
MediaPayloadOut(p) == IF rev \in Lazy THEN p ELSE Base64RoundTrip(p)

\* the frame written for a media frame: without a payload the first
\* revisions write an empty object, and in the later ones Buffer.from throws
\* a TypeError, which the handler catches: nothing is written
MediaOut(msg) ==
    IF msg.payload # NoData
    THEN <<UserAudio(elevenWs, MediaPayloadOut(msg.payload))>>
    ELSE IF rev \in Lazy THEN <<EmptyObject(elevenWs)>> ELSE << >>

\* case "media" without the test of the socket
OnMedia_Unguarded(msg) ==
    /\ aiOut' = IF elevenWs # NoSock THEN aiOut \o MediaOut(msg) ELSE aiOut
    /\ UNCHANGED <<streamSid, callSid, nStart, ws, closeCalls, elevenWs, setup>>

\* case "media"
OnMedia(msg) ==
    /\ aiOut' = IF ElevenOpen THEN aiOut \o MediaOut(msg) ELSE aiOut
    /\ UNCHANGED <<streamSid, callSid, nStart, ws, closeCalls, elevenWs, setup>>

\* case "stop"
OnStop ==
    /\ CloseIfOpen
    /\ UNCHANGED <<streamSid, callSid, nStart, setup, aiOut>>

\* case "connected", and a tag no case matches: nothing but a log line
OnTwilioOther ==
    UNCHANGED <<streamSid, callSid, nStart, ws, closeCalls, elevenWs, setup, aiOut>>

\* JSON.parse throws: catch (err), a log line
OnTwilioParseError ==
    UNCHANGED <<streamSid, callSid, nStart, ws, closeCalls, elevenWs, setup, aiOut>>

TwilioMessage(msg) ==
    /\ ~crashed
    /\ twilioWs = "OPEN"
    /\ nFrames < MaxFrames
    /\ (msg.tag = "start" /\ rev \in Lazy /\ CanConnect) => Len(ws) < MaxSockets
    /\ CASE msg = Garbage -> OnTwilioParseError
         [] msg.tag = "start" -> OnStart(msg)
         [] msg.tag = "media" -> OnMedia(msg)
         [] msg.tag = "stop" -> OnStop
         [] OTHER -> OnTwilioOther
    /\ nFrames' = nFrames + 1
    /\ last' = Event("twilio", NoSock, msg)
    /\ UNCHANGED <<config, outside, twilioWs, twOut, twCloseCalls, crashed>>

\* twilioWs.on("error"): the socket is on its way down; a log line
TwilioError ==
    /\ ~crashed
    /\ twilioWs = "OPEN"
    /\ twilioWs' = "CLOSING"
    /\ last' = Event("twilio", NoSock, Plain("error"))
    /\ UNCHANGED <<config, outside, streamSid, callSid, elevenWs, ws, setup, aiOut, twOut,
                   closeCalls, twCloseCalls, nStart, nFrames, crashed>>

\* a close handler that, like the error handler, only logs
TwilioClose_LogOnly ==
    /\ ~crashed
    /\ twilioWs \in {"OPEN", "CLOSING"}
    /\ twilioWs' = "CLOSED"
    /\ last' = Event("twilio", NoSock, Plain("close"))
    /\ UNCHANGED <<config, outside, streamSid, callSid, elevenWs, ws, setup, aiOut, twOut,
                   closeCalls, twCloseCalls, nStart, nFrames, crashed>>

\* twilioWs.on("close")
TwilioClose ==
    /\ ~crashed
    /\ twilioWs \in {"OPEN", "CLOSING"}
    /\ twilioWs' = "CLOSED"
    /\ CloseIfOpen
    /\ last' = Event("twilio", NoSock, Plain("close"))
    /\ UNCHANGED <<config, outside, streamSid, callSid, setup, aiOut, twOut, twCloseCalls,
                   nStart, nFrames, crashed>>

---------------------------------------------------------------------------
(* setupElevenLabs: the signed-URL request of the eager revision *)

\* getSignedUrl() resolves: elevenWs = new WebSocket(signedUrl)
FetchResolve ==
    /\ ~crashed
    /\ setup = "fetching"
    /\ Len(ws) < MaxSockets
    /\ NewSocket
    /\ setup' = "connected"
    /\ last' = Event("fetch", NoSock, Plain("resolve"))
    /\ UNCHANGED <<config, outside, streamSid, callSid, twilioWs, aiOut, twOut, twCloseCalls,
                   nStart, nFrames, crashed>>

\* getSignedUrl() rejects, or new WebSocket throws: caught, a log line
FetchReject ==
    /\ ~crashed
    /\ setup = "fetching"
    /\ setup' = "failed"
    /\ last' = Event("fetch", NoSock, Plain("reject"))
    /\ UNCHANGED <<config, outside, streamSid, callSid, elevenWs, twilioWs, ws, aiOut, twOut,
                   closeCalls, twCloseCalls, nStart, nFrames, crashed>>

---------------------------------------------------------------------------
(* Handlers of an ElevenLabs socket. They are closures over the session's  *)
(* variable elevenWs: they send on whatever socket it names when they run. *)

Sockets == 1 .. Len(ws)

\* the open handler sends the initiation message, except in the first
\* revision when an agent id is configured
SendsInit == rev # "v1" \/ ~ELEVENLABS_AGENT_ID

\* an exception escapes a handler that has no try/catch: the process exits,
\* and with it every socket it held
ProcessDies ==
    /\ crashed' = TRUE
    /\ ws' = [s \in Sockets |-> "CLOSED"]
    /\ twilioWs' = "CLOSED"
    /\ other' = Killed(other)
    /\ UNCHANGED aiOut

\* elevenWs.on("open"), run for socket s. The handler has no try/catch: a
\* send on null or on a CONNECTING socket throws; a send on a CLOSING or
\* CLOSED socket throws or is dropped, depending on the ws release.
ElevenOpened(s) ==
    /\ ~crashed
    /\ ws[s] = "CONNECTING"
    /\ LET opened == [ws EXCEPT ![s] = "OPEN"]
           quiet == ws' = opened /\ UNCHANGED <<twilioWs, crashed, other>>
       IN  IF ~SendsInit
           THEN quiet /\ UNCHANGED aiOut
           ELSE IF elevenWs = NoSock \/ opened[elevenWs] = "CONNECTING"
           THEN ProcessDies
           ELSE IF opened[elevenWs] = "OPEN"
           THEN quiet /\ aiOut' = Append(aiOut, InitConversation(elevenWs))
           ELSE ProcessDies \/ (quiet /\ UNCHANGED aiOut)
    /\ last' = Event("eleven", s, Plain("open"))
    /\ UNCHANGED <<config, http, streamSid, callSid, elevenWs, setup, twOut,
                   closeCalls, twCloseCalls, nStart, nFrames>>

\* only the second key read
AudioPayload_AltOnly(msg) == msg.alt

\* the second key read first
AudioPayload_AltFirst(msg) == IF TruthyText(msg.alt) THEN msg.alt ELSE msg.payload

\* msg.audio?.chunk || msg.audio_event?.audio_base_64; server.js:153-157
\* adds `|| msg.audio` and keeps the value only when it is a non-empty
\* string, so there a frame whose audio is itself a text is played too
AudioPayload(msg) ==
    IF TruthyText(msg.payload) THEN msg.payload
    ELSE IF TruthyText(msg.alt) THEN msg.alt
    ELSE IF rev = "v2" THEN msg.text
    ELSE NoData

\* case "audio"
OnAudio(msg) ==
    /\ twOut' = IF TwilioWritable /\ TruthyText(AudioPayload(msg))
                THEN Append(twOut, PlayAudio(streamSid, AudioPayload(msg)))
                ELSE twOut
    /\ UNCHANGED aiOut

\* case "interruption"
OnInterruption ==
    /\ twOut' = IF TwilioWritable THEN Append(twOut, ClearBuffer(streamSid)) ELSE twOut
    /\ UNCHANGED aiOut

\* the first two revisions answer every ping; the later ones only a ping
\* that carries an event id
AnswersPing(msg) == rev \in Lazy \/ TruthyId(msg.id)

\* pong.event_id is set only from a truthy event_id
PongId(msg) == IF TruthyId(msg.id) THEN msg.id ELSE NoId

\* case "ping" with a send that writes whatever the state of the socket
OnPing_Unguarded(msg) ==
    /\ aiOut' = IF AnswersPing(msg) /\ elevenWs # NoSock
                THEN Append(aiOut, Pong(elevenWs, PongId(msg)))
                ELSE aiOut
    /\ UNCHANGED twOut

\* case "ping": elevenWs.send inside the handler's try/catch, so a throw
\* (elevenWs null, socket not open) is caught and nothing is sent
OnPing(msg) ==
    /\ aiOut' = IF AnswersPing(msg) /\ ElevenOpen
                THEN Append(aiOut, Pong(elevenWs, PongId(msg)))
                ELSE aiOut
    /\ UNCHANGED twOut

\* every other case handled as an interruption
OnElevenOther_Clear ==
    /\ twOut' = IF TwilioWritable THEN Append(twOut, ClearBuffer(streamSid)) ELSE twOut
    /\ UNCHANGED aiOut

\* every other case: a log line
OnElevenOther == UNCHANGED <<aiOut, twOut>>

\* JSON.parse throws: catch (err), a log line
OnElevenParseError == UNCHANGED <<aiOut, twOut>>

\* a frame can arrive on an open socket, and on one the server has asked to
\* close until the closing handshake completes
CanReceive(s) == ws[s] = "OPEN" \/ (ws[s] = "CLOSING" /\ closeCalls[s] > 0)

\* elevenWs.on("message"), run for socket s
ElevenMessage(s, msg) ==
    /\ ~crashed
    /\ CanReceive(s)
    /\ nFrames < MaxFrames
    /\ CASE msg = Garbage -> OnElevenParseError
         [] msg.tag = "audio" -> OnAudio(msg)
         [] msg.tag = "interruption" -> OnInterruption
         [] msg.tag = "ping" -> OnPing(msg)
         [] OTHER -> OnElevenOther
    /\ nFrames' = nFrames + 1
    /\ last' = Event("eleven", s, msg)
    /\ UNCHANGED <<config, outside, streamSid, callSid, elevenWs, twilioWs, ws, setup,
                   closeCalls, twCloseCalls, nStart, crashed>>

\* elevenWs.on("error"), run for socket s: the socket is on its way down
ElevenError(s) ==
    /\ ~crashed
    /\ ws[s] \in {"CONNECTING", "OPEN"}
    /\ ws' = [ws EXCEPT ![s] = "CLOSING"]
    /\ last' = Event("eleven", s, Plain("error"))
    /\ UNCHANGED <<config, outside, streamSid, callSid, elevenWs, twilioWs, setup, aiOut, twOut,
                   closeCalls, twCloseCalls, nStart, nFrames, crashed>>

\* elevenWs.on("close"), run for socket s: `elevenWs = null`, whichever
\* socket the variable names
ElevenClosed(s) ==
    /\ ~crashed
    /\ ws[s] \in {"OPEN", "CLOSING"}
    /\ ws' = [ws EXCEPT ![s] = "CLOSED"]
    /\ elevenWs' = NoSock
    /\ last' = Event("eleven", s, Plain("close"))
    /\ UNCHANGED <<config, outside, streamSid, callSid, twilioWs, setup, aiOut, twOut,
                   closeCalls, twCloseCalls, nStart, nFrames, crashed>>

---------------------------------------------------------------------------

Next ==
    \/ \E msg \in TwilioFrames : TwilioMessage(msg)
    \/ TwilioError
    \/ TwilioClose
    \/ FetchResolve
    \/ FetchReject
    \/ \E s \in Sockets : ElevenOpened(s)
    \/ \E s \in Sockets, msg \in ElevenFrames : ElevenMessage(s, msg)
    \/ \E s \in Sockets : ElevenError(s)
    \/ \E s \in Sockets : ElevenClosed(s)

Spec == Init /\ [][Next]_vars

\* What the libraries guarantee without any further input: the signed-URL
\* request ends, a connecting socket opens or fails, a closing socket closes
\* (the close event follows the error event).
\* Nothing guarantees that a peer sends a frame or closes an open socket.
Settles(s) ==
    \/ ElevenOpened(s)
    \/ (ws[s] = "CONNECTING" /\ ElevenError(s))
    \/ (ws[s] = "CLOSING" /\ ElevenClosed(s))

FairSpec ==
    /\ Spec
    /\ WF_vars(FetchResolve \/ FetchReject)
    /\ WF_vars(twilioWs = "CLOSING" /\ TwilioClose)
    /\ \A s \in 1 .. MaxSockets : WF_vars(s \in Sockets /\ Settles(s))

---------------------------------------------------------------------------
(* Two sessions in one process. The other session runs the same handlers  *)
(* on its own closure; they are modelled by what they do to its sockets   *)
(* and its streamSid.                                                     *)

session == <<config, streamSid, callSid, elevenWs, twilioWs, ws, setup, aiOut, twOut,
             closeCalls, twCloseCalls, nStart, nFrames, crashed>>

OtherEvent(tag) == last' = Event("other", NoSock, Plain(tag))

\* wss.on("connection") runs for a second Twilio socket
OtherAccept ==
    /\ ~crashed
    /\ other = NoSession
    /\ other' = OtherSession("OPEN", "none", Null, << >>)
    /\ OtherEvent("connection")
    /\ UNCHANGED <<session, http>>

\* its case "start"
OtherStart ==
    /\ ~crashed
    /\ other.twilioWs = "OPEN"
    /\ other' = [other EXCEPT !.streamSid = OtherSid]
    /\ OtherEvent("start")
    /\ UNCHANGED <<session, http>>

\* its ElevenLabs socket, created by connectElevenLabs after its start frame
\* or by setupElevenLabs after accept, has opened
OtherElevenOpened ==
    /\ ~crashed
    /\ other.twilioWs # "none" /\ other.elevenWs = "none"
    /\ ELEVENLABS_API_KEY /\ (rev # "v1" => ELEVENLABS_AGENT_ID)
    /\ rev \in Lazy => other.streamSid # Null
    /\ other' = [other EXCEPT !.elevenWs = "OPEN"]
    /\ OtherEvent("open")
    /\ UNCHANGED <<session, http>>

\* its case "audio"
OtherAudio(msg) ==
    /\ ~crashed
    /\ other.elevenWs = "OPEN"
    /\ Len(other.twOut) < MaxOtherFrames
    /\ other' = IF TruthySid(other.streamSid) /\ other.twilioWs = "OPEN"
                   /\ TruthyText(msg.payload)
                THEN [other EXCEPT !.twOut = Append(@, PlayAudio(other.streamSid, msg.payload))]
                ELSE other
    /\ OtherEvent("audio")
    /\ UNCHANGED <<session, http>>

\* its twilioWs.on("close"): close() on its ElevenLabs socket when open
OtherTwilioClose ==
    /\ ~crashed
    /\ other.twilioWs = "OPEN"
    /\ other' = [other EXCEPT !.twilioWs = "CLOSED",
                              !.elevenWs = IF @ = "OPEN" THEN "CLOSED" ELSE @]
    /\ OtherEvent("close")
    /\ UNCHANGED <<session, http>>

PairNext ==
    \/ Next
    \/ OtherAccept
    \/ OtherStart
    \/ OtherElevenOpened
    \/ \E c \in AudioChunks : OtherAudio(Frame("audio", Null, c, NoData, 0))
    \/ OtherTwilioClose

PairSpec == Init /\ [][PairNext]_vars

---------------------------------------------------------------------------
(* The HTTP routes behind requireAuth (fourth revision of the file) *)

\* A header value or a key is a text: a sequence of characters.
Key1 == <<"k", "1">>
Key2 == <<"k", "2">>
Key1x == <<"k", "1", "x">>

\* process.env.VOICE_API_KEY: unset (or empty), or a key
ApiKeys == {NoData, Key1, Key2}

Bearer == <<"B", "e", "a", "r", "e", "r">>
Space == <<" ">>
Tab == <<"\t">>

\* the i flag of the regular expression: letters compared in lower case
Lower(c) == IF c = "B" THEN "b" ELSE IF c = "E" THEN "e" ELSE c

\* \s of the regular expression
Whitespace(c) == c \in {" ", "\t"}

\* x-api-key values a client sends
XApiKeys == {NoData, Key1, Key2, Key1x}

\* Authorization values a client sends
Authorizations ==
    { NoData, Key1, Key2,
      Bearer \o Space \o Key1,
      Bearer \o Space \o Key2,
      Bearer \o Space \o Key1x,
      <<"b", "E", "a", "r", "e", "r">> \o Space \o Key1,
      Bearer \o Space \o Tab \o Key1,
      Bearer \o Key1,
      Bearer,
      Bearer \o Space }

\* what happens in the handler of POST /call once it runs
CallOutcomes == {"unconfigured", "invalid", "failed", "created"}

\* the index of the first character of h at or after i that \s+ does not take
RECURSIVE Blanks(_, _)
Blanks(h, i) ==
    IF i <= Len(h) /\ Whitespace(h[i]) THEN Blanks(h, i + 1) ELSE i

\* .replace(/^Bearer\s+/i, ""): the word and at least one blank after it
\* are removed from the front; a text that does not start so is unchanged
StripBearer(h) ==
    IF /\ Len(h) > Len(Bearer)
       /\ \A i \in 1 .. Len(Bearer) : Lower(h[i]) = Lower(Bearer[i])
       /\ Whitespace(h[Len(Bearer) + 1])
    THEN SubSeq(h, Blanks(h, Len(Bearer) + 1), Len(h))
    ELSE h

\* const provided = req.headers["x-api-key"] ||
\*                  req.headers["authorization"]?.replace(...)
Provided(xApiKey, authorization) ==
    IF xApiKey # NoData THEN xApiKey
    ELSE IF authorization = NoData THEN NoData
    ELSE StripBearer(authorization)

\* a comparison of the lengths alone
safeEqual_LengthOnly(a, b) == Len(a) = Len(b)

\* safeEqual: the same length and the same bytes
safeEqual(a, b) ==
    /\ Len(a) = Len(b)
    /\ \A i \in 1 .. Len(a) : a[i] = b[i]

\* requireAuth: the status it answers with, or 0 when it calls next()
requireAuth(key, path, xApiKey, authorization) ==
    IF path = "/voice" THEN 0
    ELSE IF key = NoData THEN 503
    ELSE IF \/ Provided(xApiKey, authorization) = NoData
            \/ ~safeEqual(Provided(xApiKey, authorization), key)
    THEN 401
    ELSE 0

\* the answer of a route: requireAuth's rejection, or the handler's answer
Answer(req, status, handler, body, placed) ==
    [req EXCEPT !.status = status, !.handler = handler, !.body = body,
                !.placed = placed]

Request(path, xApiKey, authorization) ==
    [http EXCEPT !.route = path, !.xApiKey = xApiKey,
                 !.authorization = authorization]

Rejected(req) ==
    Answer(req, requireAuth(req.VOICE_API_KEY, req.route, req.xApiKey,
                            req.authorization), "none", "error", FALSE)

Passes(req) ==
    requireAuth(req.VOICE_API_KEY, req.route, req.xApiKey,
                req.authorization) = 0

\* app.get("/", requireAuth, ...): which variables are set
GetRoot(xApiKey, authorization) ==
    LET req == Request("/", xApiKey, authorization)
    IN  /\ http' = IF Passes(req)
                   THEN Answer(req, 200, "/", "env", FALSE)
                   ELSE Rejected(req)
        /\ UNCHANGED <<session, last, other>>

\* app.get("/debug", requireAuth, ...): the log buffer
GetDebug(xApiKey, authorization) ==
    LET req == Request("/debug", xApiKey, authorization)
    IN  /\ http' = IF Passes(req)
                   THEN Answer(req, 200, "/debug", "logs", FALSE)
                   ELSE Rejected(req)
        /\ UNCHANGED <<session, last, other>>

\* app.post("/call", requireAuth, ...): the checks of the configuration, of
\* the number and of the host, then client.calls.create()
PostCall(xApiKey, authorization, outcome) ==
    LET req == Request("/call", xApiKey, authorization)
    IN  /\ http' = IF ~Passes(req) THEN Rejected(req)
                   ELSE IF outcome = "unconfigured"
                   THEN Answer(req, 500, "/call", "error", FALSE)
                   ELSE IF outcome = "invalid"
                   THEN Answer(req, 400, "/call", "error", FALSE)
                   ELSE IF outcome = "failed"
                   THEN Answer(req, 500, "/call", "error", TRUE)
                   ELSE Answer(req, 200, "/call", "callSid", TRUE)
        /\ UNCHANGED <<session, last, other>>

\* the process has started with some VOICE_API_KEY; one connection is
\* accepted and idle
HttpInit ==
    /\ rev = "v4"
    /\ ELEVENLABS_API_KEY = TRUE
    /\ ELEVENLABS_AGENT_ID = TRUE
    /\ streamSid = Null
    /\ callSid = Null
    /\ elevenWs = NoSock
    /\ twilioWs = "OPEN"
    /\ ws = << >>
    /\ setup = SetupAtAccept(rev, ELEVENLABS_API_KEY, ELEVENLABS_AGENT_ID)
    /\ aiOut = << >>
    /\ twOut = << >>
    /\ closeCalls = << >>
    /\ twCloseCalls = 0
    /\ nStart = 0
    /\ nFrames = 0
    /\ crashed = FALSE
    /\ last = Event("accept", NoSock, Plain("connection"))
    /\ other = NoSession
    /\ \E key \in ApiKeys : http = [NoRequest EXCEPT !.VOICE_API_KEY = key]

HttpNext ==
    \/ \E x \in XApiKeys, a \in Authorizations : GetRoot(x, a)
    \/ \E x \in XApiKeys, a \in Authorizations : GetDebug(x, a)
    \/ \E x \in XApiKeys, a \in Authorizations, o \in CallOutcomes :
           PostCall(x, a, o)

HttpSpec == HttpInit /\ [][HttpNext]_vars

---------------------------------------------------------------------------
(* The session states of the design, read off the program's state *)

AllElevenClosed == \A s \in Sockets : ws[s] = "CLOSED"

\* both sockets open
Active == twilioWs = "OPEN" /\ ElevenOpen

SessionState ==
    IF twilioWs = "CLOSED" /\ AllElevenClosed /\ setup # "fetching" THEN "CLOSED"
    ELSE IF twilioWs # "OPEN" \/ \E s \in Sockets : ws[s] \in {"CLOSING", "CLOSED"}
    THEN "CLOSING"
    ELSE IF ElevenOpen THEN "ACTIVE"
    ELSE IF nStart > 0 THEN "CONNECTING_AI"
    ELSE "AWAITING_START"

\* the step just taken handled an inbound frame with this tag
TwilioStep(tag) ==
    last'.src = "twilio" /\ last'.frame.tag = tag /\ nFrames' = nFrames + 1
ElevenStep(tag) ==
    last'.src = "eleven" /\ last'.frame.tag = tag /\ nFrames' = nFrames + 1

---------------------------------------------------------------------------
(* C1 *)

\* C1: under every interleaving of stop, close and error events of the two
\* sockets, close() is called at most once on each ElevenLabs socket and at
\* most once on the Twilio socket.
C1_CloseAtMostOnce ==
    /\ twCloseCalls <= 1
    /\ \A s \in Sockets : closeCalls[s] <= 1

\* a session where stop, the ElevenLabs close and the Twilio close have all
\* been handled, and close() was called on the ElevenLabs socket
C1_Witness ==
    /\ twilioWs = "CLOSED"
    /\ last.src = "twilio" /\ last.frame.tag = "close"
    /\ \E s \in Sockets : closeCalls[s] = 1 /\ ws[s] = "CLOSED"

---------------------------------------------------------------------------
(* C2 *)

\* a base64 text as an encoder writes it: whole groups of four, padding
\* only at the end, unused trailing bits zero
Canonical(s) ==
    LET n == Len(s) IN
    /\ n % 4 = 0
    /\ \A i \in 1 .. n : IsDigit(s[i]) \/ (s[i] = Pad /\ i > n - 2)
    /\ n > 0 =>
        /\ s[n - 1] = Pad => (s[n] = Pad /\ s[n - 2] % 16 = 0)
        /\ (s[n] = Pad /\ s[n - 1] # Pad) => s[n - 1] % 4 = 0

\* C2 (as amended): every Media frame with a payload received while ACTIVE
\* makes exactly one user_audio_chunk frame, appended to what was sent before, on the
\* socket elevenWs names; its payload decodes to the bytes of the payload
\* received, and is the payload received, character for character, whenever
\* that one is canonical base64.
C2_RelaysMedia ==
    [][ (TwilioStep("media") /\ last'.frame.payload \in MediaPayloads /\ Active) =>
            LET p == last'.frame.payload
                c == aiOut'[Len(aiOut')]
            IN  /\ Len(aiOut') = Len(aiOut) + 1
                /\ SubSeq(aiOut', 1, Len(aiOut)) = aiOut
                /\ c.sock = elevenWs
                /\ c.cmd = "user_audio_chunk"
                /\ Base64Decode(c.data) = Base64Decode(p)
                /\ Canonical(p) => c.data = p ]_vars

\* C2 as claimed: every Media frame with a payload received while ACTIVE
\* makes exactly one user_audio_chunk frame whose payload is identical to the
\* one received.
C2_Original ==
    [][ (TwilioStep("media") /\ last'.frame.payload \in MediaPayloads /\ Active) =>
            aiOut' = Append(aiOut, [sock |-> elevenWs, cmd |-> "user_audio_chunk",
                                    data |-> last'.frame.payload, id |-> 0]) ]_vars

\* two Media frames relayed one after the other, the second with a payload
\* that is not canonical and so is written in another spelling
C2_Witness ==
    /\ Len(aiOut) >= 2
    /\ aiOut[Len(aiOut)].cmd = "user_audio_chunk"
    /\ aiOut[Len(aiOut) - 1].cmd = "user_audio_chunk"
    /\ aiOut[Len(aiOut) - 1].data # aiOut[Len(aiOut)].data
    /\ last.src = "twilio" /\ last.frame.tag = "media"
    /\ last.frame.payload # aiOut[Len(aiOut)].data

---------------------------------------------------------------------------
(* C3 *)

\* C3: every audio frame that carries a chunk and is received while ACTIVE
\* with streamSid known makes exactly one media frame on the Twilio socket,
\* appended to what was sent before, with the session's streamSid and the
\* chunk as received.
C3_RelaysAudio ==
    [][ (ElevenStep("audio") /\ Active /\ streamSid \in StreamSids
            /\ last'.frame.payload # NoData) =>
            twOut' = Append(twOut, [event |-> "media", streamSid |-> streamSid,
                                    payload |-> last'.frame.payload]) ]_vars

\* two different chunks relayed, in the order received
C3_Witness ==
    /\ Active
    /\ Len(twOut) = 2
    /\ twOut[1].event = "media" /\ twOut[2].event = "media"
    /\ twOut[1].payload # twOut[2].payload
    /\ last.src = "eleven" /\ last.frame.tag = "audio"
    /\ last.frame.payload = twOut[2].payload

---------------------------------------------------------------------------
(* C4 *)

---------------------------------------------------------------------------
(* C5 *)

\* after a Start, no ElevenLabs socket will be created: a credential is
\* missing, or the signed-URL request failed
AiUnavailable == nStart >= 1 /\ setup \in {"returned", "failed"}

\* C5 as claimed: when the AI side cannot be reached after Start, the
\* session does not stay as it is for ever: it reaches CLOSED (the claim
\* adds: by the server closing the Twilio socket), and nothing is ever
\* written to the Twilio socket. No handler leaves a timer or a callback
\* behind, so with no further event from the peers nothing more happens.
C5_Claim ==
    /\ AiUnavailable ~> SessionState = "CLOSED"
    /\ [](AiUnavailable => twOut = << >>)

---------------------------------------------------------------------------
(* C6 *)

\* C6 as claimed: when the close or the error of the session's ElevenLabs
\* socket is handled while the session is ACTIVE, the Twilio socket is
\* asked to close and the session is in CLOSING.
C6_Claim ==
    [][ (last'.src = "eleven" /\ last'.frame.tag \in {"close", "error"}
            /\ nFrames' = nFrames /\ last'.sock = elevenWs /\ Active) =>
            (twCloseCalls' >= 1 /\ SessionState' = "CLOSING") ]_vars

---------------------------------------------------------------------------
(* C7 *)

\* the signed-URL request is pending, or the socket is created and not open
HandshakeInFlight ==
    \/ setup = "fetching"
    \/ (elevenWs # NoSock /\ ws[elevenWs] = "CONNECTING")

\* C7 as claimed: when the Twilio socket is closed while the handshake is in
\* flight, every ElevenLabs socket of the session is eventually closed.
C7_Claim ==
    (twilioWs = "CLOSED" /\ HandshakeInFlight) ~> (AllElevenClosed /\ setup # "fetching")

---------------------------------------------------------------------------
(* C8 *)

\* C8 as claimed: a second Start tears the session down (close asked of the
\* Twilio socket and of every ElevenLabs socket) and creates no socket.
C8_Claim ==
    [][ (TwilioStep("start") /\ nStart >= 1) =>
            /\ Len(ws') = Len(ws)
            /\ twCloseCalls' >= 1
            /\ \A s \in Sockets : ws'[s] \in {"CLOSING", "CLOSED"} ]_vars

---------------------------------------------------------------------------
(* C9 *)

\* C9 as claimed: at most one ElevenLabs socket is ever created in a session.
C9_Claim == Len(ws) <= 1

---------------------------------------------------------------------------
(* C10 *)

\* C10 as claimed: before a Start has been handled no signed-URL request
\* has been made and no ElevenLabs socket has been created.
C10_Original == nStart = 0 => (setup = "idle" /\ ws = << >> /\ elevenWs = NoSock)

\* C10 (as amended): in the revisions that connect from the start handler,
\* before a Start has been handled nothing of the ElevenLabs connection
\* exists; the other revisions have called setupElevenLabs at accept.
C10_LazyConnect ==
    /\ (rev \in Lazy /\ nStart = 0) => (setup = "idle" /\ ws = << >> /\ elevenWs = NoSock)
    /\ (rev \notin Lazy) => setup # "idle"

\* frames handled before any Start, and still no connection step
C10_Witness ==
    /\ rev \in Lazy /\ ELEVENLABS_API_KEY /\ ELEVENLABS_AGENT_ID
    /\ nStart = 0 /\ nFrames = MaxFrames
    /\ last.src = "twilio" /\ last.frame.tag = "media"

---------------------------------------------------------------------------
(* C11 *)

\* the chunk an audio frame carries, under whichever of its keys
ChunkOf(frame) ==
    IF frame.payload # NoData THEN frame.payload
    ELSE IF frame.alt # NoData THEN frame.alt
    ELSE frame.text

\* the step appends exactly this frame to what was written to Twilio
TwilioWrites(frame) == twOut' = Append(twOut, frame)

\* C11 as claimed: every interruption frame handled while the Twilio socket
\* is open makes exactly one clear frame on it.
C11_Original ==
    [][ (ElevenStep("interruption") /\ twilioWs = "OPEN") =>
            /\ Len(twOut') = Len(twOut) + 1
            /\ twOut'[Len(twOut')].event = "clear" ]_vars

\* C11 (as amended): an interruption frame handled while streamSid is known
\* and the Twilio socket is open makes exactly one clear frame with the
\* session's streamSid, appended to what was written before; handled before
\* streamSid is known it writes nothing, then or later. Nothing is queued:
\* a media frame is written to Twilio only by the step that handles an
\* audio frame, and carries that frame's chunk, so none written after the
\* clear carries a chunk received before the interruption.
C11_ClearsOnce ==
    [][ /\ (ElevenStep("interruption") /\ streamSid \in StreamSids /\ twilioWs = "OPEN") =>
              TwilioWrites([event |-> "clear", streamSid |-> streamSid, payload |-> NoData])
        /\ (ElevenStep("interruption") /\ streamSid \notin StreamSids) => twOut' = twOut
        /\ twOut' # twOut =>
              /\ Len(twOut') = Len(twOut) + 1
              /\ SubSeq(twOut', 1, Len(twOut)) = twOut
              /\ ElevenStep("audio") \/ ElevenStep("interruption")
              /\ twOut'[Len(twOut')].event = "media" =>
                    /\ ElevenStep("audio")
                    /\ twOut'[Len(twOut')].payload = ChunkOf(last'.frame) ]_vars

\* a chunk played, then the interruption: the clear is the last frame written
C11_Witness ==
    /\ last.src = "eleven" /\ last.frame.tag = "interruption"
    /\ Len(twOut) = 2
    /\ twOut[1].event = "media"
    /\ twOut[2] = [event |-> "clear", streamSid |-> streamSid, payload |-> NoData]

---------------------------------------------------------------------------
(* C12 *)

\* C12 as claimed: every ping frame that carries an event_id, handled on the
\* session's open ElevenLabs socket, makes exactly one pong frame on that
\* socket with the same event_id, written while the ping is handled.
C12_Claim ==
    [][ (ElevenStep("ping") /\ last'.frame.id \in PingIds
            /\ ElevenOpen /\ last'.sock = elevenWs) =>
            aiOut' = Append(aiOut, [sock |-> last'.sock, cmd |-> "pong",
                                    data |-> NoData, id |-> last'.frame.id]) ]_vars

---------------------------------------------------------------------------
(* C13 *)

\* the step just taken handled this event of a socket (not a frame)
SocketEvent(src, tag) ==
    last'.src = src /\ last'.frame.tag = tag /\ nFrames' = nFrames

\* C13 as claimed: when an ElevenLabs socket opens, exactly one
\* conversation_initiation_client_data frame is written to it, and nothing
\* was written to that socket before.
C13_Claim ==
    [][ SocketEvent("eleven", "open") =>
            /\ aiOut' = Append(aiOut, [sock |-> last'.sock,
                                       cmd |-> "conversation_initiation_client_data",
                                       data |-> NoData, id |-> 0])
            /\ \A i \in 1 .. Len(aiOut) : aiOut[i].sock # last'.sock ]_vars

---------------------------------------------------------------------------
(* C14 *)

\* C14: an audio frame handled while no streamSid is known writes nothing
\* to the Twilio socket and harms nothing; it is not kept either: the step
\* that handles a start frame writes nothing to Twilio, and every media
\* frame written to Twilio is written by the step that handles an audio
\* frame, with the streamSid known at that moment and that frame's chunk.
C14_DropsAudioWithoutSid ==
    [][ /\ (ElevenStep("audio") /\ streamSid \notin StreamSids) =>
              /\ twOut' = twOut
              /\ UNCHANGED <<twilioWs, ws, elevenWs, crashed>>
        /\ TwilioStep("start") => twOut' = twOut
        /\ (Len(twOut') > Len(twOut) /\ twOut'[Len(twOut')].event = "media") =>
              /\ ElevenStep("audio")
              /\ streamSid \in StreamSids
              /\ twOut' = Append(twOut, [event |-> "media", streamSid |-> streamSid,
                                         payload |-> ChunkOf(last'.frame)]) ]_vars

\* the ElevenLabs socket is open before any start frame, and a chunk has
\* just been handled: nothing was written
C14_Witness ==
    /\ last.src = "eleven" /\ last.frame.tag = "audio"
    /\ last.frame.payload \in AudioChunks
    /\ nStart = 0 /\ streamSid = Null
    /\ twilioWs = "OPEN" /\ ElevenOpen
    /\ twOut = << >>

---------------------------------------------------------------------------
(* C15 *)

\* C15: a media frame handled while the session has no ElevenLabs socket,
\* or one that is not open, writes nothing to any ElevenLabs socket and
\* harms nothing: sockets, streamSid and callSid stay as they are. It is
\* not kept either: the step in which a socket opens writes no
\* user_audio_chunk, and every user_audio_chunk is written by the step that
\* handles a media frame, to the open socket, with that frame's audio.
C15_DropsMediaBeforeActive ==
    [][ /\ (TwilioStep("media") /\ (elevenWs = NoSock \/ ws[elevenWs] # "OPEN")) =>
              /\ aiOut' = aiOut
              /\ UNCHANGED <<twilioWs, ws, elevenWs, streamSid, callSid, crashed>>
        /\ (Len(aiOut') > Len(aiOut) /\ aiOut'[Len(aiOut')].cmd = "user_audio_chunk") =>
              /\ TwilioStep("media")
              /\ elevenWs # NoSock /\ ws[elevenWs] = "OPEN"
              /\ Len(aiOut') = Len(aiOut) + 1
              /\ SubSeq(aiOut', 1, Len(aiOut)) = aiOut
              /\ aiOut'[Len(aiOut')].sock = elevenWs
              /\ Base64Decode(aiOut'[Len(aiOut')].data) = Base64Decode(last'.frame.payload) ]_vars

\* after the start frame the socket is still connecting, and a media frame
\* has just been handled: nothing was written
C15_Witness ==
    /\ last.src = "twilio" /\ last.frame.tag = "media"
    /\ last.frame.payload \in MediaPayloads
    /\ elevenWs # NoSock /\ ws[elevenWs] = "CONNECTING"
    /\ twilioWs = "OPEN" /\ ~crashed
    /\ aiOut = << >>

---------------------------------------------------------------------------
(* C16 *)

\* a frame that does not parse, or has its tag and lacks the field the
\* handler of that tag reads
Malformed(frame) ==
    frame \in {Garbage, StartWithoutSid, MediaWithoutPayload, AudioWithoutChunk,
               PingWithoutId}

\* C16 as claimed: handling a malformed frame of either socket writes
\* nothing to either socket, closes nothing, ends nothing, and leaves
\* streamSid, callSid and elevenWs as they were.
C16_Claim ==
    [][ (nFrames' = nFrames + 1 /\ Malformed(last'.frame)) =>
            UNCHANGED <<aiOut, twOut, ws, twilioWs, closeCalls, twCloseCalls,
                        streamSid, callSid, elevenWs, crashed>> ]_vars

---------------------------------------------------------------------------
(* C17 *)

\* C17 as claimed: once the Twilio socket and every ElevenLabs socket of the
\* session are closed, no step (a late frame, the late end of the
\* signed-URL request) creates a socket, writes a frame or changes
\* streamSid, callSid or elevenWs.
C17_Claim ==
    [][ (twilioWs = "CLOSED" /\ AllElevenClosed) =>
            UNCHANGED <<ws, closeCalls, elevenWs, streamSid, callSid, aiOut, twOut>> ]_vars

---------------------------------------------------------------------------
(* C18 *)

---------------------------------------------------------------------------
(* C19 *)

\* C19: an audio or interruption frame handled after the Twilio socket has
\* left OPEN (it failed, or it closed and the ElevenLabs socket is still
\* closing) writes nothing to the Twilio socket and raises nothing: no
\* socket changes state and the process goes on. Nothing at all is written
\* to the Twilio socket once it is not open.
C19_NoWriteAfterTwilioLeft ==
    [][ /\ ((ElevenStep("audio") \/ ElevenStep("interruption")) /\ twilioWs # "OPEN") =>
              /\ twOut' = twOut
              /\ UNCHANGED <<twilioWs, ws, closeCalls, elevenWs, aiOut, crashed>>
        /\ twilioWs # "OPEN" => twOut' = twOut ]_vars

\* streamSid is known, the Twilio socket has closed, and a chunk arrives on
\* the ElevenLabs socket before its closing handshake ends: nothing more is
\* written
C19_Witness ==
    /\ last.src = "eleven" /\ last.frame.tag = "audio"
    /\ last.frame.payload \in AudioChunks
    /\ streamSid \in StreamSids
    /\ twilioWs = "CLOSED" /\ ~crashed
    /\ ws[last.sock] = "CLOSING"

---------------------------------------------------------------------------
(* C20 *)

\* the tags the two switches have a case for, "error" apart
TwilioTags == {"connected", "start", "media", "stop"}
ElevenTags == {"conversation_initiation_metadata", "audio", "agent_response",
               "user_transcript", "interruption", "ping"}

\* C20: handling an error frame of ElevenLabs, or a frame of either socket
\* whose tag no case matches, changes nothing but the log: no socket is
\* closed or created, nothing is written to either socket, streamSid,
\* callSid and elevenWs stay as they are, and the process goes on.
C20_NoEffect ==
    [][ (\/ ElevenStep("error")
         \/ (nFrames' = nFrames + 1 /\ last'.frame # Garbage
                /\ \/ last'.src = "twilio" /\ last'.frame.tag \notin TwilioTags
                   \/ last'.src = "eleven" /\ last'.frame.tag \notin ElevenTags)) =>
            UNCHANGED <<streamSid, callSid, elevenWs, twilioWs, ws, closeCalls,
                        twCloseCalls, setup, aiOut, twOut, crashed>> ]_vars

\* an active session has just handled an error frame and is still active,
\* with what it had written before
C20_Witness ==
    /\ last.src = "eleven" /\ last.frame.tag = "error" /\ nFrames = MaxFrames
    /\ Active /\ streamSid \in StreamSids /\ ~crashed
    /\ Len(twOut) = 1 /\ twOut[1].event = "media"
    /\ closeCalls[elevenWs] = 0

---------------------------------------------------------------------------
(* C21 *)

\* C21 as claimed: with two sessions in the process, a step of one session
\* leaves the other session's sockets, streamSid and written frames as they
\* were, and every frame written to a Twilio socket carries the streamSid
\* of that socket's session.
C21_Claim ==
    [][ /\ last'.src # "other" => other' = other
        /\ last'.src = "other" => UNCHANGED session
        /\ \A i \in 1 .. Len(twOut') : twOut'[i].streamSid \in StreamSids
        /\ \A i \in 1 .. Len(other'.twOut) : other'.twOut[i].streamSid = OtherSid ]_vars

---------------------------------------------------------------------------
(* C22 *)

\* C22 as claimed: the chunk played for an audio frame is audio.chunk when
\* present, else audio_event.audio_base_64; with neither, nothing is
\* written to the Twilio socket.
C22_Original ==
    [][ (ElevenStep("audio") /\ streamSid \in StreamSids /\ twilioWs = "OPEN") =>
            LET f == last'.frame
                chosen == IF f.payload # NoData THEN f.payload ELSE f.alt
            IN  IF chosen = NoData THEN twOut' = twOut
                ELSE twOut' = Append(twOut, [event |-> "media", streamSid |-> streamSid,
                                             payload |-> chosen]) ]_vars

\* C22 (as amended): the chunk played for an audio frame is audio.chunk when
\* present, else audio_event.audio_base_64, else, in the one revision that
\* reads a third key, the audio field itself when it is a text; when none
\* of the keys read carries a text nothing is written to the Twilio socket.
C22_Precedence ==
    [][ (ElevenStep("audio") /\ streamSid \in StreamSids /\ twilioWs = "OPEN") =>
            LET f == last'.frame
                chosen == IF f.payload # NoData THEN f.payload
                          ELSE IF f.alt # NoData THEN f.alt
                          ELSE IF rev = "v2" THEN f.text
                          ELSE NoData
            IN  IF chosen = NoData THEN twOut' = twOut
                ELSE twOut' = Append(twOut, [event |-> "media", streamSid |-> streamSid,
                                             payload |-> chosen]) ]_vars

\* a frame that carries a chunk under both keys has been played: the chunk
\* written is the one of audio.chunk, not the other
C22_Witness ==
    /\ last.src = "eleven" /\ last.frame = AudioInBoth
    /\ Len(twOut) >= 1
    /\ twOut[Len(twOut)].event = "media"
    /\ twOut[Len(twOut)].payload = last.frame.payload
    /\ twOut[Len(twOut)].payload # last.frame.alt

---------------------------------------------------------------------------
(* C23 *)

\* C23 as claimed: the pong written for a ping goes to the socket on which
\* the ping arrived, whichever socket elevenWs names by then.
C23_Claim ==
    [][ (ElevenStep("ping") /\ Len(aiOut') > Len(aiOut)) =>
            aiOut'[Len(aiOut')].sock = last'.sock ]_vars

---------------------------------------------------------------------------
(* C24 *)

\* C24: streamSid changes only when a start frame is handled, to the value
\* that frame supplies; and every frame written to the Twilio socket is
\* written after a start frame and carries the streamSid the session holds
\* at that moment, which is a value a start frame supplied, never null.
C24_StreamSidOnEveryFrame ==
    [][ /\ TwilioStep("start") => streamSid' = last'.frame.sid
        /\ streamSid' # streamSid => TwilioStep("start")
        /\ Len(twOut') > Len(twOut) =>
              /\ nStart >= 1
              /\ streamSid \in StreamSids /\ streamSid' = streamSid
              /\ twOut'[Len(twOut')].event \in {"media", "clear"}
              /\ twOut'[Len(twOut')].streamSid = streamSid
              /\ SubSeq(twOut', 1, Len(twOut)) = twOut
        /\ \A i \in 1 .. Len(twOut') : twOut'[i].streamSid \in StreamSids ]_vars

\* two start frames were handled, and the chunk that followed was written
\* with the streamSid of the second
C24_Witness ==
    /\ nStart = 2 /\ nFrames = 3
    /\ last.src = "eleven" /\ last.frame.tag = "audio"
    /\ Len(twOut) = 1
    /\ twOut[1].event = "media" /\ twOut[1].streamSid = streamSid
    /\ streamSid \in StreamSids

---------------------------------------------------------------------------
(* C25 *)

\* C25 as claimed: every ElevenLabs socket of the session that is connecting
\* or open is the socket elevenWs names.
C25_Claim ==
    \A s \in Sockets : ws[s] \in {"CONNECTING", "OPEN"} => elevenWs = s

---------------------------------------------------------------------------
(* C26 *)

\* C26: a frame is written to an ElevenLabs socket only while that socket
\* is open and close() has not been called on it. So once close() has been
\* called on the session's socket, a media frame writes no
\* user_audio_chunk and a ping that still arrives on the closing socket
\* gets no pong.
C26_NoWriteAfterClose ==
    [][ /\ Len(aiOut') > Len(aiOut) =>
              /\ Len(aiOut') = Len(aiOut) + 1
              /\ closeCalls[aiOut'[Len(aiOut')].sock] = 0
              /\ closeCalls'[aiOut'[Len(aiOut')].sock] = 0
              /\ ws'[aiOut'[Len(aiOut')].sock] = "OPEN"
        /\ ((TwilioStep("media") \/ ElevenStep("ping"))
               /\ elevenWs # NoSock /\ closeCalls[elevenWs] >= 1) => aiOut' = aiOut ]_vars

\* stop has called close() on the socket, and a ping with an event id has
\* arrived on it before the closing handshake ended: no pong was written
C26_Witness ==
    /\ last.src = "eleven" /\ last.frame.tag = "ping" /\ last.frame.id = 7
    /\ elevenWs = last.sock
    /\ ws[elevenWs] = "CLOSING" /\ closeCalls[elevenWs] = 1
    /\ twilioWs = "OPEN"
    /\ \A i \in 1 .. Len(aiOut) : aiOut[i].cmd # "pong"

---------------------------------------------------------------------------
(* C27: the routes behind requireAuth *)

\* a request has been answered
Answered == http.route # "none"

\* the Authorization value is the word Bearer, one or more blanks, the key
BearerOf(a, key) ==
    \E n \in 1 .. Len(a) :
        /\ Len(a) = Len(Bearer) + n + Len(key)
        /\ \A i \in 1 .. Len(Bearer) : Lower(a[i]) = Lower(Bearer[i])
        /\ \A i \in Len(Bearer) + 1 .. Len(Bearer) + n : Whitespace(a[i])
        /\ SubSeq(a, Len(Bearer) + n + 1, Len(a)) = key

\* the configured key arrived in x-api-key or as Authorization: Bearer
KeyInHeaderOrBearer ==
    /\ http.VOICE_API_KEY # NoData
    /\ \/ http.xApiKey = http.VOICE_API_KEY
       \/ BearerOf(http.authorization, http.VOICE_API_KEY)

\* the configured key is the x-api-key value or, when there is no x-api-key,
\* the Authorization value with or without a leading "Bearer "
KeyProvided ==
    /\ http.VOICE_API_KEY # NoData
    /\ \/ http.xApiKey = http.VOICE_API_KEY
       \/ /\ http.xApiKey = NoData
          /\ \/ http.authorization = http.VOICE_API_KEY
             \/ BearerOf(http.authorization, http.VOICE_API_KEY)

\* a rejection runs no handler, places no call and returns only an error
NothingGiven ==
    http.status \in {401, 503} =>
        /\ http.handler = "none"
        /\ ~http.placed
        /\ http.body = "error"

\* C27 as stated: a request to GET /, GET /debug or POST /call reaches its
\* handler only if VOICE_API_KEY is configured and the key in x-api-key or
\* in Authorization: Bearer equals it; with VOICE_API_KEY unset the answer
\* is 503, with a missing or different key it is 401, and neither places a
\* call nor returns log or environment data.
C27_Original ==
    Answered =>
        /\ http.handler # "none" => KeyInHeaderOrBearer
        /\ http.VOICE_API_KEY = NoData => http.status = 503
        /\ (http.VOICE_API_KEY # NoData /\ ~KeyInHeaderOrBearer) =>
               http.status = 401
        /\ NothingGiven

\* C27 amended: a request to GET /, GET /debug or POST /call reaches its
\* handler exactly when VOICE_API_KEY is configured and equals the x-api-key
\* value or, when no x-api-key is sent, the Authorization value with or
\* without a leading "Bearer "; with VOICE_API_KEY unset the answer is 503,
\* otherwise without that key it is 401, and neither places a call nor
\* returns log or environment data.
C27_RequireAuth ==
    Answered =>
        /\ http.handler # "none" <=> KeyProvided
        /\ http.handler # "none" => http.handler = http.route
        /\ http.VOICE_API_KEY = NoData => http.status = 503
        /\ (http.VOICE_API_KEY # NoData /\ ~KeyProvided) => http.status = 401
        /\ NothingGiven

\* POST /call with the bare key as its Authorization value placed a call
C27_Witness ==
    /\ http.route = "/call"
    /\ http.VOICE_API_KEY = Key1
    /\ http.xApiKey = NoData
    /\ http.authorization = Key1
    /\ http.handler = "/call"
    /\ http.placed

====
